---------------------------- MODULE Spec2Model ----------------------------
(***************************************************************************)
(* A model of maud's markup parser (maud_macros/src/parse.rs).             *)
(*                                                                         *)
(* The parser is a recursive-descent engine over a token-tree slice that   *)
(* drives a Renderer while it parses.  The model is a small-step machine:  *)
(* `stack` is the Rust call stack (one frame per active method, with the   *)
(* method's position and locals), `parsers` are the live Parser values     *)
(* (the outermost one and one per active `block`), and each action below   *)
(* is one method, run from its current position up to its next call or     *)
(* return.                                                                 *)
(***************************************************************************)
EXTENDS Integers, Sequences, FiniteSets, TLC

VARIABLES
    tokens,     \* the token trees handed to `parse` (never changes)
    parsers,    \* live Parser structs, innermost last
    stack,      \* call stack of method frames, innermost last
    ret,        \* value returned by the method that returned last
    diags,      \* diagnostics reported through cx.span_err / cx.span_fatal
    handed,     \* token slices handed to the Rust sub-parser, in order
    status,     \* "running", "done" or "fatal"
    output      \* <<>> until `parse` returns, then <<the final operations>>

vars == <<tokens, parsers, stack, ret, diags, handed, status, output>>

-----------------------------------------------------------------------------
(* Token trees.  A token is [k, v, tts]: k is the token kind, v the         *)
(* identifier text, literal kind or delimiter, tts a group's contents.      *)
(* Annot gives every token its span: its path from the root.                *)

Tok(k, v) == [k |-> k, v |-> v, tts |-> <<>>]
Ident(s) == Tok("Ident", s)
Lit(kind) == Tok("Literal", kind)
Dollar == Tok("Dollar", "")
Dot == Tok("Dot", "")
Eq == Tok("Eq", "")
Not == Tok("Not", "")
Question == Tok("Question", "")
Semi == Tok("Semi", "")
Minus == Tok("Minus", "")
Slash == Tok("Slash", "")
Group(delim, tts) == [k |-> "Delimited", v |-> delim, tts |-> tts]
Brace(tts) == Group("Brace", tts)
Paren(tts) == Group("Paren", tts)
Bracket(tts) == Group("Bracket", tts)

RECURSIVE Annot(_, _)
Annot(tts, path) ==
    [i \in 1..Len(tts) |->
        [k |-> tts[i].k, v |-> tts[i].v, sp |-> Append(path, i),
         tts |-> Annot(tts[i].tts, Append(path, i))]]

\* The span handed to `parse`: the whole macro invocation.
RootSpan == <<>>

-----------------------------------------------------------------------------
(* The patterns of the macro_rules at the top of parse.rs.                  *)

is_dollar(tt) == tt.k = "Dollar"
is_dot(tt) == tt.k = "Dot"
is_eq(tt) == tt.k = "Eq"
is_question(tt) == tt.k = "Question"
is_semi(tt) == tt.k = "Semi"
is_minus(tt) == tt.k = "Minus"
is_slash(tt) == tt.k = "Slash"
is_literal(tt) == tt.k = "Literal"
is_ident(tt) == tt.k = "Ident"
is_delimited(tt) == tt.k = "Delimited"
is_brace(tt) == tt.k = "Delimited" /\ tt.v = "Brace"

-----------------------------------------------------------------------------
(* The Rust sub-parser (libsyntax), from the contract of spec section 6.    *)

\* parse_lit on one literal token: the literal node of that kind, with a
\* sample value of the kind.
parse_lit(tt) ==
    CASE tt.v = "Str" -> [node |-> "LitStr", s |-> "hi ", span |-> tt.sp]
      [] tt.v = "Bang" -> [node |-> "LitStr", s |-> "!", span |-> tt.sp]
      [] tt.v = "Binary" -> [node |-> "LitBinary", s |-> "", span |-> tt.sp]
      [] tt.v = "Byte" -> [node |-> "LitByte", s |-> "", span |-> tt.sp]
      [] tt.v = "Char" -> [node |-> "LitChar", s |-> "c", span |-> tt.sp]
      [] tt.v = "Int" -> [node |-> "LitInt", s |-> "42", span |-> tt.sp]
      [] tt.v = "Float" -> [node |-> "LitFloat", s |-> "1.5", span |-> tt.sp]
      [] tt.v = "FloatUnsuffixed" ->
            [node |-> "LitFloatUnsuffixed", s |-> "1.5", span |-> tt.sp]
      [] OTHER -> [node |-> "LitBool", s |-> "true", span |-> tt.sp]

\* parse_expr on a slice: an expression that keeps the slice.  A slice that
\* is one non-empty parenthesised group is an ExprParen.
parse_expr(tts) ==
    [node |-> IF /\ Len(tts) = 1 /\ is_delimited(tts[1])
                 /\ tts[1].v = "Paren" /\ tts[1].tts # <<>>
              THEN "ExprParen" ELSE "Expr",
     tts |-> tts]

\* Whether parse_expr can fail on the slice: it always fails on an empty
\* one, and may fail on any other (the slice need not be an expression).
parse_expr_outcomes(tts) == IF tts = <<>> THEN {"fatal"} ELSE {"ok", "fatal"}

-----------------------------------------------------------------------------
(* The Renderer (maud_macros/src/render.rs), from the Accumulator contract  *)
(* of spec section 6: a renderer is the sequence of operations recorded.    *)

fork == <<>>
into_stmts_dropped(render) == <<>>
into_stmts(render) == render
into_expr(render) == render
render_string(render, s, escape) ==
    Append(render, [op |-> "string", s |-> s, escape |-> escape])
render_splice(render, expr, escape) ==
    Append(render, [op |-> "splice", expr |-> expr, escape |-> escape])
element_open_start(render, name) ==
    Append(render, [op |-> "element_open_start", name |-> name])
element_open_end(render) == Append(render, [op |-> "element_open_end"])
element_close(render, name) ==
    Append(render, [op |-> "element_close", name |-> name])
attribute_start(render, name) ==
    Append(render, [op |-> "attribute_start", name |-> name])
attribute_end(render) == Append(render, [op |-> "attribute_end"])
attribute_empty(render, name) ==
    Append(render, [op |-> "attribute_empty", name |-> name])
push_stmts(render, stmts) ==
    Append(render, [op |-> "push_stmts", stmts |-> stmts])
\* else_body is <<>> for None and <<stmts>> for Some(stmts).
emit_if(render, cond, if_body, else_body) ==
    Append(render, [op |-> "emit_if", cond |-> cond, if_body |-> if_body,
                    else_body |-> else_body])

-----------------------------------------------------------------------------
(* The machine: frames, the current parser, calls and returns.              *)

\* What a method returned, as ret holds it: () and a bool in a record of
\* their own, an expression as it is, each in a one-element sequence; a
\* Vec<P<Stmt>> is the sequence of its operations.
unit == <<[unit |-> TRUE]>>
bool(b) == <<[bool |-> b]>>

Top == stack[Len(stack)]
Self == parsers[Len(parsers)]
SetSelf(p) == [parsers EXCEPT ![Len(parsers)] = p]
Running(fn, pc) == status = "running" /\ stack # <<>> /\ Top.fn = fn /\ Top.pc = pc

Jump(pc) == [stack EXCEPT ![Len(stack)].pc = pc]
Call(pc, frame) == Append(Jump(pc), frame)
Pop == SubSeq(stack, 1, Len(stack) - 1)

\* Parser::shift: drop n items from the front of the input.  The slice
\* &self.input[n..] is out of range when fewer than n items are left; the
\* input is then marked with OutOfRange.
shift_nothing(p, n) == p
OutOfRange == <<[k |-> "OutOfRange", v |-> "", tts |-> <<>>, sp |-> <<>>]>>
shift(p, n) ==
    [p EXCEPT !.input = IF n <= Len(@) THEN SubSeq(@, n + 1, Len(@)) ELSE OutOfRange]
with_render(p, r) == [p EXCEPT !.render = r]

span_err(sp, msg) == Append(diags, [level |-> "error", span |-> sp, msg |-> msg])
span_fatal(sp, msg) == Append(diags, [level |-> "fatal", span |-> sp, msg |-> msg])

\* cx.span_fatal: the diagnostic is reported and the parse unwinds; nothing
\* runs afterwards.
Fatal(sp, msg) ==
    /\ diags' = span_fatal(sp, msg)
    /\ status' = "fatal"
    /\ UNCHANGED <<tokens, stack, ret, output>>

Parser(in_attr, input, span, render) ==
    [in_attr |-> in_attr, input |-> input, span |-> span, render |-> render]

\* The frame of each method on entry: its arguments and its locals.
\* base and input0 are bookkeeping: how many operations the renderer held on
\* entry, and the input on entry.
if_expr_frame(sp, base, input0) ==
    [fn |-> "if_expr", pc |-> "loop", sp |-> sp, cond_tts |-> <<>>,
     if_body |-> <<>>, if_cond |-> <<>>, render |-> <<>>,
     base |-> base, input0 |-> input0]
\* input0 is bookkeeping: the input on entry.
splice_frame(sp, input0) ==
    [fn |-> "splice", pc |-> "start", sp |-> sp, tts |-> <<>>, input0 |-> input0]
\* base is bookkeeping: how many operations the renderer held on entry.
element_frame(sp, name, base) ==
    [fn |-> "element", pc |-> "start", sp |-> sp, name |-> name, base |-> base]
attrs_frame == [fn |-> "attrs", pc |-> "loop", name |-> "", in_attr |-> FALSE]
block_frame(sp, tts) == [fn |-> "block", pc |-> "start", sp |-> sp, tts |-> tts]
markup_frame == [fn |-> "markup", pc |-> "match"]
markups_frame == [fn |-> "markups", pc |-> "loop"]

-----------------------------------------------------------------------------
(* fn parse: construct the parser, run markups, finalize the renderer.      *)

parse ==
    \/ /\ Running("parse", "start")
       /\ stack' = Call("markups", markups_frame)
       /\ UNCHANGED <<tokens, parsers, ret, diags, handed, status, output>>
    \/ /\ Running("parse", "markups")
       /\ output' = <<into_expr(Self.render)>>
       /\ status' = "done"
       /\ stack' = Pop
       /\ UNCHANGED <<tokens, parsers, ret, diags, handed>>

(* fn markups: skip `;`, parse units until the input ends or markup fails.  *)

\* The match of the loop (lines 81-85).
markups_arm_without_semi(inp) == IF inp = <<>> THEN "return" ELSE "markup"
markups_arm(inp) ==
    IF inp = <<>> THEN "return"
    ELSE IF is_semi(inp[1]) THEN "semi"
    ELSE "markup"

markups ==
    \/ /\ Running("markups", "loop")
       /\ markups_arm(Self.input) = "return"
       /\ stack' = Pop
       /\ ret' = unit
       /\ UNCHANGED <<tokens, parsers, diags, handed, status, output>>
    \/ /\ Running("markups", "loop")
       /\ markups_arm(Self.input) = "semi"
       /\ parsers' = SetSelf(shift(Self, 1))
       /\ UNCHANGED <<tokens, stack, ret, diags, handed, status, output>>
    \/ /\ Running("markups", "loop")
       /\ markups_arm(Self.input) = "markup"
       /\ stack' = Call("markup", markup_frame)
       /\ UNCHANGED <<tokens, parsers, ret, diags, handed, status, output>>
    \/ /\ Running("markups", "markup")
       /\ IF ret = bool(FALSE)
          THEN stack' = Pop /\ ret' = unit
          ELSE stack' = Jump("loop") /\ UNCHANGED ret
       /\ UNCHANGED <<tokens, parsers, diags, handed, status, output>>

(* fn markup: the arm of the match that the input selects, first match      *)
(* first.                                                                   *)

markup_arm_splice_first(inp) ==
    LET n == Len(inp) IN
    IF n >= 2 /\ is_minus(inp[1]) /\ is_literal(inp[2]) THEN "minus_literal"
    ELSE IF n >= 1 /\ is_literal(inp[1]) THEN "literal"
    ELSE IF n >= 2 /\ is_dollar(inp[1]) /\ is_dollar(inp[2]) THEN "splice_passthru"
    ELSE IF n >= 1 /\ is_dollar(inp[1]) THEN "splice_escape"
    ELSE IF n >= 2 /\ is_dollar(inp[1]) /\ is_ident(inp[2]) /\ inp[2].v = "if"
        THEN "if"
    ELSE IF n >= 1 /\ is_ident(inp[1]) THEN "element"
    ELSE IF n >= 1 /\ is_brace(inp[1]) THEN "block"
    ELSE "invalid"
markup_arm(inp) ==
    LET n == Len(inp) IN
    IF n >= 2 /\ is_minus(inp[1]) /\ is_literal(inp[2]) THEN "minus_literal"
    ELSE IF n >= 1 /\ is_literal(inp[1]) THEN "literal"
    ELSE IF n >= 2 /\ is_dollar(inp[1]) /\ is_ident(inp[2]) /\ inp[2].v = "if"
        THEN "if"
    ELSE IF n >= 2 /\ is_dollar(inp[1]) /\ is_dollar(inp[2]) THEN "splice_passthru"
    ELSE IF n >= 1 /\ is_dollar(inp[1]) THEN "splice_escape"
    ELSE IF n >= 1 /\ is_ident(inp[1]) THEN "element"
    ELSE IF n >= 1 /\ is_brace(inp[1]) THEN "block"
    ELSE "invalid"

\* How many tokens the arm shifts before it calls its rule.
markup_shift_two(arm) == IF arm = "invalid" THEN 0 ELSE 2
markup_shift_one(arm) == IF arm = "invalid" THEN 0 ELSE 1
markup_shift(arm) ==
    CASE arm \in {"minus_literal", "if", "splice_passthru"} -> 2
      [] arm \in {"literal", "splice_escape", "element", "block"} -> 1
      [] OTHER -> 0

markup ==
    \/ /\ Running("markup", "match")
       /\ LET inp == Self.input
              arm == markup_arm(inp)
          IN
          /\ arm # "invalid"
          /\ parsers' = SetSelf(shift(Self, markup_shift(arm)))
          /\ stack' = Call(arm,
                CASE arm = "minus_literal" ->
                        [fn |-> "literal", pc |-> "start", tt |-> inp[2], minus |-> TRUE]
                  [] arm = "literal" ->
                        [fn |-> "literal", pc |-> "start", tt |-> inp[1], minus |-> FALSE]
                  [] arm = "if" ->
                        if_expr_frame(inp[2].sp, Len(Self.render), shift(Self, 2).input)
                  [] arm \in {"splice_passthru", "splice_escape"} ->
                        splice_frame(inp[1].sp, shift(Self, markup_shift(arm)).input)
                  [] arm = "element" -> element_frame(inp[1].sp, inp[1].v, Len(Self.render))
                  [] arm = "block" -> block_frame(inp[1].sp, inp[1].tts))
          /\ UNCHANGED <<tokens, ret, diags, handed, status, output>>
    \/ /\ Running("markup", "match")
       /\ markup_arm(Self.input) = "invalid"
       /\ diags' = IF Self.input # <<>>
                   THEN span_err(Self.input[1].sp, "invalid syntax")
                   ELSE span_err(Self.span, "unexpected end of block")
       /\ stack' = Pop
       /\ ret' = bool(FALSE)
       /\ UNCHANGED <<tokens, parsers, handed, status, output>>
    \/ /\ status = "running" /\ stack # <<>> /\ Top.fn = "markup"
       /\ Top.pc \in {"minus_literal", "literal", "if", "element"}
       /\ stack' = Pop
       /\ ret' = bool(TRUE)
       /\ UNCHANGED <<tokens, parsers, diags, handed, status, output>>
    \/ /\ status = "running" /\ stack # <<>> /\ Top.fn = "markup"
       /\ Top.pc \in {"splice_passthru", "splice_escape"}
       /\ parsers' = SetSelf(with_render(Self,
             render_splice(Self.render, ret[1],
                 IF Top.pc = "splice_passthru" THEN "PassThru" ELSE "Escape")))
       /\ stack' = Pop
       /\ ret' = bool(TRUE)
       /\ UNCHANGED <<tokens, diags, handed, status, output>>
    \/ /\ Running("markup", "block")
       /\ parsers' = SetSelf(with_render(Self, push_stmts(Self.render, ret)))
       /\ stack' = Pop
       /\ ret' = bool(TRUE)
       /\ UNCHANGED <<tokens, diags, handed, status, output>>

(* fn lit_to_string and fn literal.                                         *)

\* s is <<text>> for Some(text) and <<>> for None, a text being the sequence
\* of the pieces pushed; errs are the diagnostics it reports through cx.
lit_to_string_without_return(lit, minus) ==
    LET result == IF minus THEN <<"-">> ELSE <<>> IN
    IF lit.node \in {"LitBinary", "LitByte"}
    THEN [s |-> <<result>>,
          errs |-> <<[level |-> "error", span |-> lit.span,
                      msg |-> "cannot splice binary data"]>>]
    ELSE [s |-> <<Append(result, lit.s)>>, errs |-> <<>>]
lit_to_string(lit, minus) ==
    LET result == IF minus THEN <<"-">> ELSE <<>> IN
    IF lit.node \in {"LitBinary", "LitByte"}
    THEN [s |-> <<>>,
          errs |-> <<[level |-> "error", span |-> lit.span,
                      msg |-> "cannot splice binary data"]>>]
    ELSE [s |-> <<Append(result, lit.s)>>, errs |-> <<>>]

literal ==
    /\ Running("literal", "start")
    /\ LET lit == parse_lit(Top.tt)
           r == lit_to_string(lit, Top.minus)
       IN
       /\ handed' = Append(handed, [by |-> "literal", tts |-> <<Top.tt>>])
       /\ diags' = diags \o r.errs
       /\ IF r.s # <<>>
          THEN parsers' = SetSelf(with_render(Self,
                    render_string(Self.render, r.s[1], "Escape")))
          ELSE UNCHANGED parsers
    /\ stack' = Pop
    /\ ret' = unit
    /\ UNCHANGED <<tokens, status, output>>

(* fn if_expr.                                                              *)

\* The match on what follows the `if` body (lines 166-191).
else_arm_lenient(inp) ==
    LET n == Len(inp) IN
    IF n >= 3 /\ is_dollar(inp[1]) /\ is_ident(inp[2]) /\ inp[2].v = "else"
    THEN IF is_ident(inp[3]) /\ inp[3].v = "if" THEN "else_if"
         ELSE IF is_brace(inp[3]) THEN "else_block"
         ELSE "none"
    ELSE "none"
else_arm(inp) ==
    LET n == Len(inp) IN
    IF n >= 2 /\ is_dollar(inp[1]) /\ is_ident(inp[2]) /\ inp[2].v = "else"
    THEN IF n >= 3 /\ is_ident(inp[3]) /\ inp[3].v = "if" THEN "else_if"
         ELSE IF n >= 3 /\ is_brace(inp[3]) THEN "else_block"
         ELSE "else_invalid"
    ELSE "none"

\* Lines 175-176: the renderer an `else if` is parsed against.
else_if_render_live(render) == render
else_if_render(render) == fork

if_expr ==
    \/ /\ Running("if_expr", "loop")
       /\ Self.input # <<>> /\ is_brace(Self.input[1])
       /\ parsers' = SetSelf(shift(Self, 1))
       /\ stack' = Call("if_body", block_frame(Self.input[1].sp, Self.input[1].tts))
       /\ UNCHANGED <<tokens, ret, diags, handed, status, output>>
    \/ /\ Running("if_expr", "loop")
       /\ Self.input # <<>> /\ ~is_brace(Self.input[1])
       /\ parsers' = SetSelf(shift(Self, 1))
       /\ stack' = [stack EXCEPT ![Len(stack)].cond_tts = Append(@, Self.input[1])]
       /\ UNCHANGED <<tokens, ret, diags, handed, status, output>>
    \/ /\ Running("if_expr", "loop")
       /\ Self.input = <<>>
       /\ Fatal(Top.sp, "expected body for this if")
       /\ UNCHANGED <<parsers, handed>>
    \/ /\ Running("if_expr", "if_body")
       /\ handed' = Append(handed, [by |-> "if_expr", tts |-> Top.cond_tts])
       /\ \E outcome \in parse_expr_outcomes(Top.cond_tts) :
            LET if_body == ret
                if_cond == parse_expr(Top.cond_tts)
                inp == Self.input
                arm == else_arm(inp)
                frame == [Top EXCEPT !.if_body = if_body, !.if_cond = if_cond]
            IN
            IF outcome = "fatal"
            THEN Fatal(Top.sp, "expected expression") /\ UNCHANGED parsers
            ELSE CASE arm = "else_if" ->
                        /\ parsers' = SetSelf(with_render(shift(Self, 3),
                                            else_if_render(Self.render)))
                        /\ stack' = Append(
                              [stack EXCEPT ![Len(stack)] =
                                  [frame EXCEPT !.pc = "else_if",
                                                !.render = Self.render]],
                              if_expr_frame(inp[3].sp, Len(else_if_render(Self.render)),
                                            shift(Self, 3).input))
                        /\ UNCHANGED <<tokens, ret, diags, status, output>>
                   [] arm = "else_block" ->
                        /\ parsers' = SetSelf(shift(Self, 3))
                        /\ stack' = Append(
                              [stack EXCEPT ![Len(stack)] =
                                  [frame EXCEPT !.pc = "else_block"]],
                              block_frame(inp[3].sp, inp[3].tts))
                        /\ UNCHANGED <<tokens, ret, diags, status, output>>
                   [] arm = "else_invalid" ->
                        /\ parsers' = SetSelf(shift(Self, 2))
                        /\ Fatal(Top.sp, "invalid syntax")
                   [] OTHER ->
                        /\ parsers' = SetSelf(with_render(Self,
                              emit_if(Self.render, if_cond, if_body, <<>>)))
                        /\ stack' = Pop
                        /\ ret' = unit
                        /\ UNCHANGED <<tokens, diags, status, output>>
    \/ /\ Running("if_expr", "else_if")
       /\ LET else_body == into_stmts(Self.render) IN
          parsers' = SetSelf(with_render(Self,
              emit_if(Top.render, Top.if_cond, Top.if_body, <<else_body>>)))
       /\ stack' = Pop
       /\ ret' = unit
       /\ UNCHANGED <<tokens, diags, handed, status, output>>
    \/ /\ Running("if_expr", "else_block")
       /\ parsers' = SetSelf(with_render(Self,
              emit_if(Self.render, Top.if_cond, Top.if_body, <<ret>>)))
       /\ stack' = Pop
       /\ ret' = unit
       /\ UNCHANGED <<tokens, diags, handed, status, output>>

(* fn splice.                                                               *)

\* The match of the munching loop (lines 203-216).
splice_arm_any_group(inp) ==
    LET n == Len(inp) IN
    IF n >= 2 /\ is_dot(inp[1]) /\ is_ident(inp[2]) THEN "dot_ident"
    ELSE IF n >= 1 /\ is_delimited(inp[1]) THEN "delimited"
    ELSE "break"
splice_arm(inp) ==
    LET n == Len(inp) IN
    IF n >= 2 /\ is_dot(inp[1]) /\ is_ident(inp[2]) THEN "dot_ident"
    ELSE IF n >= 1 /\ is_delimited(inp[1]) /\ inp[1].v # "Brace" THEN "delimited"
    ELSE "break"

splice ==
    \/ /\ Running("splice", "start")
       /\ IF Self.input # <<>>
          THEN /\ parsers' = SetSelf(shift(Self, 1))
               /\ stack' = [stack EXCEPT ![Len(stack)].tts = Append(@, Self.input[1]),
                                         ![Len(stack)].pc = "loop"]
          ELSE /\ stack' = Jump("loop")
               /\ UNCHANGED parsers
       /\ UNCHANGED <<tokens, ret, diags, handed, status, output>>
    \/ /\ Running("splice", "loop")
       /\ splice_arm(Self.input) = "dot_ident"
       /\ parsers' = SetSelf(shift(Self, 2))
       /\ stack' = [stack EXCEPT ![Len(stack)].tts =
                        Append(Append(@, Self.input[1]), Self.input[2])]
       /\ UNCHANGED <<tokens, ret, diags, handed, status, output>>
    \/ /\ Running("splice", "loop")
       /\ splice_arm(Self.input) = "delimited"
       /\ parsers' = SetSelf(shift(Self, 1))
       /\ stack' = [stack EXCEPT ![Len(stack)].tts = Append(@, Self.input[1])]
       /\ UNCHANGED <<tokens, ret, diags, handed, status, output>>
    \/ /\ Running("splice", "loop")
       /\ splice_arm(Self.input) = "break"
       /\ Top.tts = <<>>
       /\ Fatal(Top.sp, "expected expression for this splice")
       /\ UNCHANGED <<parsers, handed>>
    \/ /\ Running("splice", "loop")
       /\ splice_arm(Self.input) = "break"
       /\ Top.tts # <<>>
       /\ handed' = Append(handed, [by |-> "splice", tts |-> Top.tts])
       /\ \E outcome \in parse_expr_outcomes(Top.tts) :
            IF outcome = "fatal"
            THEN Fatal(Top.sp, "expected expression")
            ELSE /\ stack' = Pop
                 /\ ret' = <<parse_expr(Top.tts)>>
                 /\ UNCHANGED <<tokens, diags, status, output>>
       /\ UNCHANGED parsers

(* fn element.                                                              *)

\* Line 226: an element is refused in an attribute value.
element_allowed_in_attr(p) == FALSE
element_forbidden(p) == p.in_attr

\* Line 233: a `/` after the attributes closes the element.
element_never_self_closing(inp) == FALSE
element_self_closing_at_end(inp) == inp = <<>> \/ is_slash(inp[1])
element_self_closing(inp) == inp # <<>> /\ is_slash(inp[1])

element ==
    \/ /\ Running("element", "start")
       /\ element_forbidden(Self)
       /\ diags' = span_err(Top.sp, "unexpected element, you silly bumpkin")
       /\ stack' = Pop
       /\ ret' = unit
       /\ UNCHANGED <<tokens, parsers, handed, status, output>>
    \/ /\ Running("element", "start")
       /\ ~element_forbidden(Self)
       /\ parsers' = SetSelf(with_render(Self,
              element_open_start(Self.render, Top.name)))
       /\ stack' = Call("attrs", attrs_frame)
       /\ UNCHANGED <<tokens, ret, diags, handed, status, output>>
    \/ /\ Running("element", "attrs")
       /\ element_self_closing(Self.input)
       /\ parsers' = SetSelf(shift(with_render(Self,
              element_open_end(Self.render)), 1))
       /\ stack' = Pop
       /\ ret' = unit
       /\ UNCHANGED <<tokens, diags, handed, status, output>>
    \/ /\ Running("element", "attrs")
       /\ ~element_self_closing(Self.input)
       /\ parsers' = SetSelf(with_render(Self, element_open_end(Self.render)))
       /\ stack' = Call("markup", markup_frame)
       /\ UNCHANGED <<tokens, ret, diags, handed, status, output>>
    \/ /\ Running("element", "markup")
       /\ parsers' = SetSelf(with_render(Self,
              element_close(Self.render, Top.name)))
       /\ stack' = Pop
       /\ ret' = unit
       /\ UNCHANGED <<tokens, diags, handed, status, output>>

(* fn strip_outer_parens and fn attrs.                                      *)

strip_outer_parens(expr) ==
    IF expr.node = "ExprParen" THEN parse_expr(expr.tts[1].tts) ELSE expr

\* Line 252: the second swap puts the saved flag back.
swap_back_forgotten(saved, current) == current
swap_back(saved, current) == saved

\* The match of the attribute loop (lines 242-277).
attrs_arm_without_toggle(inp) ==
    LET n == Len(inp) IN
    IF n >= 2 /\ is_ident(inp[1]) /\ is_eq(inp[2]) THEN "value"
    ELSE IF n >= 2 /\ is_ident(inp[1]) /\ is_question(inp[2]) THEN "empty"
    ELSE "return"
attrs_arm(inp) ==
    LET n == Len(inp) IN
    IF n >= 2 /\ is_ident(inp[1]) /\ is_eq(inp[2]) THEN "value"
    ELSE IF n >= 2 /\ is_ident(inp[1]) /\ is_question(inp[2])
        THEN IF n >= 3 /\ is_eq(inp[3]) THEN "toggle" ELSE "empty"
    ELSE "return"

attrs ==
    \/ /\ Running("attrs", "loop")
       /\ attrs_arm(Self.input) = "value"
       /\ parsers' = SetSelf([with_render(shift(Self, 2),
              attribute_start(Self.render, Self.input[1].v))
              EXCEPT !.in_attr = TRUE])
       /\ stack' = Append(
              [stack EXCEPT ![Len(stack)].pc = "markup",
                            ![Len(stack)].in_attr = Self.in_attr],
              markup_frame)
       /\ UNCHANGED <<tokens, ret, diags, handed, status, output>>
    \/ /\ Running("attrs", "markup")
       /\ parsers' = SetSelf([with_render(Self, attribute_end(Self.render))
              EXCEPT !.in_attr = swap_back(Top.in_attr, Self.in_attr)])
       /\ stack' = Jump("loop")
       /\ UNCHANGED <<tokens, ret, diags, handed, status, output>>
    \/ /\ Running("attrs", "loop")
       /\ attrs_arm(Self.input) = "toggle"
       /\ parsers' = SetSelf(shift(Self, 3))
       /\ stack' = Append(
              [stack EXCEPT ![Len(stack)].pc = "splice",
                            ![Len(stack)].name = Self.input[1].v],
              splice_frame(Self.input[3].sp, shift(Self, 3).input))
       /\ UNCHANGED <<tokens, ret, diags, handed, status, output>>
    \/ /\ Running("attrs", "splice")
       /\ LET cond == strip_outer_parens(ret[1])
              body == into_stmts(attribute_empty(fork, Top.name))
          IN parsers' = SetSelf(with_render(Self,
                 emit_if(Self.render, cond, body, <<>>)))
       /\ stack' = Jump("loop")
       /\ UNCHANGED <<tokens, ret, diags, handed, status, output>>
    \/ /\ Running("attrs", "loop")
       /\ attrs_arm(Self.input) = "empty"
       /\ parsers' = SetSelf(with_render(shift(Self, 2),
              attribute_empty(Self.render, Self.input[1].v)))
       /\ UNCHANGED <<tokens, stack, ret, diags, handed, status, output>>
    \/ /\ Running("attrs", "loop")
       /\ attrs_arm(Self.input) = "return"
       /\ stack' = Pop
       /\ ret' = unit
       /\ UNCHANGED <<tokens, parsers, diags, handed, status, output>>

(* fn block: a new Parser over the group's tokens, with a forked renderer.  *)

\* Lines 281-286: the parser of the group's tokens.
block_parser_outside_attr(p, sp, tts) == Parser(FALSE, tts, sp, fork)
block_parser_sharing_render(p, sp, tts) == Parser(p.in_attr, tts, sp, p.render)
block_parser(p, sp, tts) == Parser(p.in_attr, tts, sp, fork)

block ==
    \/ /\ Running("block", "start")
       /\ parsers' = Append(parsers, block_parser(Self, Top.sp, Top.tts))
       /\ stack' = Call("markups", markups_frame)
       /\ UNCHANGED <<tokens, ret, diags, handed, status, output>>
    \/ /\ Running("block", "markups")
       /\ ret' = into_stmts(Self.render)
       /\ parsers' = SubSeq(parsers, 1, Len(parsers) - 1)
       /\ stack' = Pop
       /\ UNCHANGED <<tokens, diags, handed, status, output>>

-----------------------------------------------------------------------------
(* The inputs.                                                              *)

\* Every token tree of at most MaxTokens tokens (a group counts as one token
\* plus its contents) over the token kinds the parser tells apart.
MaxTokens == 2

Atoms ==
    { Ident("p"), Ident("if"), Ident("else"), Lit("Str"), Lit("Binary"), Dollar,
      Dot, Eq, Question, Semi, Minus, Slash, Not }
Delims == { "Brace", "Paren" }

RECURSIVE Trees(_)
Trees(n) ==
    IF n = 0 THEN { <<>> }
    ELSE { <<a>> \o rest : a \in Atoms, rest \in Trees(n - 1) }
         \cup UNION { { <<Group(d, inner)>> \o rest :
                          d \in Delims, inner \in Trees(k), rest \in Trees(n - 1 - k) }
                      : k \in 0..(n - 1) }

SmallInputs == UNION { Trees(n) : n \in 0..MaxTokens }

\* Concatenations of at most n pieces drawn from the set ps.
RECURSIVE Concats(_, _)
Concats(ps, n) ==
    IF n = 0 THEN { <<>> }
    ELSE { <<>> } \cup { x \o rest : x \in ps, rest \in Concats(ps, n - 1) }

\* A body nested in d brace groups.
RECURSIVE Nest(_, _)
Nest(tts, d) == IF d = 0 THEN tts ELSE <<Brace(Nest(tts, d - 1))>>

\* Elements: a name, at most MaxAttrs attributes, and what follows them.
MaxAttrs == 2
MaxNest == 2

AttrForms ==
    { <<Ident("a"), Eq, Lit("Str")>>,
      <<Ident("a"), Eq, Dollar, Ident("x")>>,
      <<Ident("a"), Eq, Not>>,
      <<Ident("a"), Eq, Lit("Binary")>>,
      <<Ident("a"), Eq, Dollar, Ident("if"), Ident("c"),
        Brace(<<Lit("Str"), Ident("q")>>), Dollar, Ident("else"), Ident("if"),
        Ident("c"), Brace(<<Ident("q"), Slash>>)>>,
      <<Ident("b"), Question>>,
      <<Ident("b"), Question, Eq, Ident("c")>>,
      <<Ident("b"), Question, Eq, Paren(<<Ident("c")>>), Dot, Ident("d")>>,
      <<Ident("b"), Question, Eq, Paren(<<Ident("c")>>)>> }
      \cup { <<Ident("a"), Eq>> \o Nest(<<Ident("q"), Lit("Str")>>, d) : d \in 0..MaxNest }

ElementTails ==
    { <<>>, <<Slash>>, <<Slash, Lit("Str")>>, <<Lit("Str"), Lit("Str")>>, <<Not>>,
      <<Ident("q"), Slash>>, <<Ident("q"), Ident("r")>>,
      <<Brace(<<Lit("Str"), Semi, Ident("q"), Slash, Not, Lit("Str")>>), Lit("Str")>> }

\* The forms that are combined into longer attribute lists.
CoreAttrForms ==
    { <<Ident("a"), Eq, Lit("Str")>>,
      <<Ident("a"), Eq, Dollar, Ident("x")>>,
      <<Ident("a"), Eq, Not>>,
      <<Ident("a"), Eq, Brace(<<Ident("q"), Lit("Str")>>)>>,
      <<Ident("b"), Question>>,
      <<Ident("b"), Question, Eq, Paren(<<Ident("c")>>)>> }

ElementInputs ==
    { <<Ident("p")>> \o as \o tail :
        as \in Concats(AttrForms, 1), tail \in ElementTails }
    \cup { <<Ident("p")>> \o as \o tail :
        as \in Concats(CoreAttrForms, MaxAttrs), tail \in { <<Slash>>, <<Lit("Str")>> } }

\* Conditionals: `$ if`, a condition, a body, at most MaxLinks `$ else if`
\* links, and what follows the chain.
MaxLinks == 2

IfConds == { <<>>, <<Ident("c")>>, <<Ident("c"), Paren(<<>>), Eq, Eq, Lit("Str")>> }
IfBodies == { <<Brace(<<>>)>>, <<Brace(<<Lit("Str"), Ident("q"), Slash>>)>> }
IfLinks ==
    { <<Dollar, Ident("else"), Ident("if"), Ident("c")>> \o body : body \in IfBodies }
IfEnds ==
    { <<>>, <<Lit("Str")>>, <<Semi, Ident("else")>>,
      <<Dollar, Ident("else")>>,
      <<Dollar, Ident("else"), Not>>,
      <<Dollar, Ident("else"), Brace(<<Dollar, Ident("x")>>), Lit("Str")>>,
      <<Dollar, Ident("else"), Ident("if"), Ident("c")>>,
      <<Dollar, Ident("else"), Ident("if"), Brace(<<>>)>>,
      <<Dollar, Ident("else"), Brace(<<Dollar, Ident("if"), Ident("c"), Brace(<<>>)>>)>>,
      <<Dollar, Ident("else"),
        Brace(<<Lit("Str"), Dollar, Ident("if"), Ident("c"), Brace(<<>>),
                Dollar, Ident("else")>>)>> }

IfInputs ==
    { <<Dollar, Ident("if")>> \o cond \o body \o links \o end :
        cond \in IfConds, body \in IfBodies,
        links \in Concats(IfLinks, MaxLinks), end \in IfEnds }

\* Splices: one or two `$`, a first token, at most MaxConts continuations,
\* and the token that stops the munching.
MaxConts == 2

SpliceHeads == { <<Dollar>>, <<Dollar, Dollar>> }
SpliceFirsts ==
    { <<>>, <<Ident("a")>>, <<Paren(<<Ident("a")>>)>>, <<Brace(<<>>)>>, <<Dot>>,
      <<Lit("Str")>> }
SpliceConts ==
    { <<Dot, Ident("b")>>, <<Paren(<<>>)>>, <<Bracket(<<Lit("Int")>>)>> }
SpliceStops ==
    { <<>>, <<Lit("Str")>>, <<Brace(<<Lit("Str")>>)>>, <<Dot>>, <<Dot, Paren(<<>>)>>,
      <<Dot, Lit("Str")>>, <<Ident("b")>> }

SpliceInputs ==
    { head \o first \o conts \o stop :
        head \in SpliceHeads, first \in SpliceFirsts,
        conts \in Concats(SpliceConts, MaxConts), stop \in SpliceStops }

\* Sequences of at most MaxUnits markup units, at the top level and in a block.
MaxUnits == 2

Units ==
    { <<Lit("Str")>>, <<Minus, Lit("Int")>>, <<Minus, Lit("Byte")>>, <<Semi>>,
      <<Dollar, Ident("x")>>, <<Ident("q"), Slash>>, <<Ident("q"), Lit("Char")>>,
      <<Not>>, <<Ident("true")>>, <<Minus, Lit("FloatUnsuffixed")>>,
      <<Brace(<<Lit("Str"), Semi, Not, Lit("Str")>>)>>,
      <<Brace(<<Brace(<<Semi, Lit("Float")>>), Lit("Char")>>)>> }

UnitInputs ==
    LET seqs == Concats(Units, MaxUnits) IN
    seqs \cup { <<Brace(s)>> : s \in seqs }

\* The template `p { "hi " $name "!" }`.
Example ==
    <<Ident("p"), Brace(<<Lit("Str"), Dollar, Ident("name"), Lit("Bang")>>)>>

\* The templates `a b "x"` and `input type="checkbox" checked?`.
Siblings == <<Ident("a"), Ident("b"), Lit("Str")>>
Checkbox ==
    <<Ident("input"), Ident("type"), Eq, Lit("Str"), Ident("checked"), Question>>

Inputs ==
    SmallInputs \cup ElementInputs \cup IfInputs \cup SpliceInputs \cup UnitInputs
        \cup { Example, Siblings, Checkbox }

Init ==
    /\ tokens \in { Annot(i, RootSpan) : i \in Inputs }
    /\ parsers = <<Parser(FALSE, tokens, RootSpan, <<>>)>>
    /\ stack = <<[fn |-> "parse", pc |-> "start"]>>
    /\ ret = unit
    /\ diags = <<>>
    /\ handed = <<>>
    /\ status = "running"
    /\ output = <<>>

Next ==
    \/ parse
    \/ markups
    \/ markup
    \/ literal
    \/ if_expr
    \/ splice
    \/ element
    \/ attrs
    \/ block

Spec == Init /\ [][Next]_vars

\* The parser is one sequential computation: a step that can be taken is
\* taken.  Every step changes the parsers, the stack or the status.
control == <<parsers, stack, status>>
FairSpec == Spec /\ WF_control(Next)

-----------------------------------------------------------------------------
(* Operators over operation sequences, used by the properties below.        *)

Last(seq) == seq[Len(seq)]
IsPrefix(a, b) == Len(a) <= Len(b) /\ SubSeq(b, 1, Len(a)) = a

\* The operation sequences an operation carries.
Payloads(o) ==
    IF o.op = "push_stmts" THEN <<o.stmts>>
    ELSE IF o.op = "emit_if" THEN <<o.if_body>> \o o.else_body
    ELSE <<>>

IsTagOp(o) == o.op \in {"element_open_start", "element_open_end", "element_close"}

\* A tag operation in ops or, at any depth, in the payloads of ops.
RECURSIVE HasTagOp(_)
HasTagOp(ops) ==
    \E i \in 1..Len(ops) :
        \/ IsTagOp(ops[i])
        \/ \E k \in 1..Len(Payloads(ops[i])) : HasTagOp(Payloads(ops[i])[k])

\* ops[j] lies after an attribute_start that no attribute_end has closed.
InAttrValue(ops, j) ==
    \E i \in 1..(j - 1) :
        /\ ops[i].op = "attribute_start"
        /\ \A k \in (i + 1)..(j - 1) : ops[k].op # "attribute_end"

\* No tag operation between an attribute_start and its attribute_end, in ops
\* and in every payload of ops.
RECURSIVE AttrValuesClean(_)
AttrValuesClean(ops) ==
    \A j \in 1..Len(ops) :
        /\ InAttrValue(ops, j) => ~HasTagOp(<<ops[j]>>)
        /\ \A k \in 1..Len(Payloads(ops[j])) : AttrValuesClean(Payloads(ops[j])[k])

\* The operations a parser in attribute context has recorded for the value.
ValueOps(p) ==
    LET starts == { i \in 1..Len(p.render) : p.render[i].op = "attribute_start" }
        from == IF starts = {} THEN 0 ELSE CHOOSE i \in starts : \A j \in starts : j <= i
    IN SubSeq(p.render, from + 1, Len(p.render))

-----------------------------------------------------------------------------
(* C1: an element met while in_attr is true reports "unexpected element",   *)
(* emits nothing and returns; so no accumulator, live or captured, holds a  *)
(* tag operation between an attribute_start and its attribute_end.          *)

C1Step ==
    (Running("element", "start") /\ Self.in_attr) =>
        /\ diags' = Append(diags, [level |-> "error", span |-> Top.sp,
                                   msg |-> "unexpected element, you silly bumpkin"])
        /\ parsers' = parsers
        /\ stack' = Pop

C1State ==
    /\ \A i \in 1..Len(parsers) :
        /\ AttrValuesClean(parsers[i].render)
        /\ parsers[i].in_attr => ~HasTagOp(ValueOps(parsers[i]))
    /\ \A i \in 1..Len(output) : AttrValuesClean(output[i])

C1 == []C1State /\ [][C1Step]_vars

\* An element refused two blocks deep inside an attribute value.
C1Witness ==
    /\ status = "running" /\ Len(parsers) >= 3 /\ Self.in_attr
    /\ Top.fn = "markup" /\ Top.pc = "element"
    /\ diags # <<>> /\ Last(diags).msg = "unexpected element, you silly bumpkin"
    /\ parsers[1].render # <<>> /\ Last(parsers[1].render).op = "attribute_start"

-----------------------------------------------------------------------------
(* C2: an element outside attribute context whose attributes are followed   *)
(* by `/` consumes the `/`, parses no body and emits no element_close;      *)
(* any other element parses exactly one markup unit as its body and has     *)
(* emitted, when it returns, element_open_start(name), its attribute        *)
(* operations, element_open_end, the body's operations and                  *)
(* element_close(name).                                                     *)

SelfNext == parsers'[Len(parsers')]

\* What the element on top of the stack has emitted, given the renderer.
ElementOps(render) == SubSeq(render, Top.base + 1, Len(render))

\* ops is element_open_start(name), attribute operations, element_open_end.
IsOpenTag(ops, name) ==
    /\ Len(ops) >= 2
    /\ ops[1] = [op |-> "element_open_start", name |-> name]
    /\ Last(ops) = [op |-> "element_open_end"]
    /\ \A i \in 2..(Len(ops) - 1) : ~IsTagOp(ops[i])

C2Step ==
    /\ (status = "running" /\ stack # <<>> /\ Top.fn = "element"
            /\ Top.pc \in {"attrs", "markup"})
        => ~Self.in_attr /\ Len(parsers') = Len(parsers)
    /\ (Running("element", "attrs") /\ Self.input # <<>> /\ is_slash(Self.input[1]))
        => /\ SelfNext.input = Tail(Self.input)
           /\ stack' = Pop
           /\ SelfNext.render = Append(Self.render, [op |-> "element_open_end"])
           /\ IsOpenTag(ElementOps(SelfNext.render), Top.name)
    /\ (Running("element", "attrs") /\ ~(Self.input # <<>> /\ is_slash(Self.input[1])))
        => /\ SelfNext.input = Self.input
           /\ stack' = Append(Jump("markup"), markup_frame)
           /\ SelfNext.render = Append(Self.render, [op |-> "element_open_end"])
           /\ IsOpenTag(ElementOps(SelfNext.render), Top.name)
    /\ Running("element", "markup")
        => /\ SelfNext.input = Self.input
           /\ stack' = Pop
           /\ SelfNext.render =
                Append(Self.render, [op |-> "element_close", name |-> Top.name])
           /\ \E m \in 2..Len(ElementOps(Self.render)) :
                IsOpenTag(SubSeq(ElementOps(Self.render), 1, m), Top.name)

C2 == [][C2Step]_vars

\* An element has returned whose body was a self-closed element.
C2Witness ==
    /\ status = "running" /\ Top.fn = "markup" /\ Top.pc = "element"
    /\ Len(Self.render) >= 5
    /\ Last(Self.render) = [op |-> "element_close", name |-> "p"]
    /\ Self.render[Len(Self.render) - 1].op = "element_open_end"
    /\ Self.render[Len(Self.render) - 2] = [op |-> "element_open_start", name |-> "q"]
    /\ \E i \in 1..Len(Self.render) : Self.render[i].op = "attribute_end"

-----------------------------------------------------------------------------
(* C3, as the spec states it: the operations of a forked accumulator reach  *)
(* the parent only as the payload of a conditional-branch operation, and a  *)
(* brace group met at dispatch is parsed against the current accumulator,   *)
(* without a fork.                                                          *)

\* The operation the step appends to the current parser's renderer, if any.
Appended ==
    IF /\ Len(parsers') = Len(parsers)
       /\ Len(SelfNext.render) = Len(Self.render) + 1
       /\ IsPrefix(Self.render, SelfNext.render)
    THEN <<Last(SelfNext.render)>>
    ELSE <<>>

C3OriginalStep ==
    /\ (Running("block", "start") /\ stack[Len(stack) - 1].fn = "markup")
        => SelfNext.render = Self.render
    /\ \A i \in 1..Len(Appended) :
        (\E k \in 1..Len(Payloads(Appended[i])) : Payloads(Appended[i])[k] # <<>>)
            => Appended[i].op = "emit_if"

C3Original == [][C3OriginalStep]_vars

(* C3, amended: every nested parser starts from a fork, also the one of a   *)
(* brace group met at dispatch; only the current parser's accumulator       *)
(* changes; and what a fork recorded reaches the parent only as the payload *)
(* of the one operation appended for it: push_stmts for a block met at      *)
(* dispatch, emit_if for a conditional branch or a toggled attribute.       *)

C3Step ==
    /\ status = "running" /\ stack # <<>>
    /\ \A i \in 1..Len(parsers') :
        /\ i > Len(parsers) =>
            Running("block", "start") /\ parsers'[i].render = fork
        /\ i < Len(parsers) => parsers'[i].render = parsers[i].render
        /\ (i = Len(parsers) /\ parsers'[i].render # parsers[i].render) =>
            \/ /\ Appended # <<>>
               /\ Payloads(Appended[1]) = <<>>
            \/ /\ Running("markup", "block")
               /\ Appended = <<[op |-> "push_stmts", stmts |-> ret]>>
            \/ /\ Running("if_expr", "if_body")
               /\ Appended # <<>> /\ Appended[1].op = "emit_if"
               /\ Payloads(Appended[1]) = <<ret>>
            \/ /\ Running("if_expr", "else_block")
               /\ Appended # <<>> /\ Appended[1].op = "emit_if"
               /\ Payloads(Appended[1]) = <<Top.if_body, ret>>
            \/ /\ Running("attrs", "splice")
               /\ Appended # <<>> /\ Appended[1].op = "emit_if"
               /\ Payloads(Appended[1]) =
                    <<<<[op |-> "attribute_empty", name |-> Top.name]>>>>
            \/ /\ Running("if_expr", "if_body")
               /\ parsers'[i].render = fork
               /\ Len(stack') = Len(stack) + 1
               /\ stack'[Len(stack)].render = Self.render
               /\ stack'[Len(stack)].if_body = ret
            \/ /\ Running("if_expr", "else_if")
               /\ Len(parsers'[i].render) = Len(Top.render) + 1
               /\ IsPrefix(Top.render, parsers'[i].render)
               /\ Last(parsers'[i].render).op = "emit_if"
               /\ Payloads(Last(parsers'[i].render)) = <<Top.if_body, Self.render>>
    /\ Running("block", "markups") =>
        /\ ret' = Self.render
        /\ parsers' = SubSeq(parsers, 1, Len(parsers) - 1)
    /\ (Running("if_expr", "if_body") /\ Len(stack') > Len(stack)) =>
        stack'[Len(stack)].if_body = ret

C3 == [][C3Step]_vars

\* A block met at dispatch has been appended, as one push_stmts operation,
\* to a renderer that already held operations.
C3Witness ==
    /\ status = "running" /\ Len(parsers) = 1
    /\ Len(Self.render) >= 2
    /\ Last(Self.render).op = "push_stmts"
    /\ Len(Last(Self.render).stmts) >= 2

-----------------------------------------------------------------------------
(* C4: an if_expr that returns has appended exactly one emit_if operation   *)
(* to the accumulator it was called with, and nothing else.  In that        *)
(* operation every `$ else if` link of the chain is an else payload of      *)
(* exactly one operation, the next link's emit_if, and the else payload is  *)
(* absent exactly where no `$ else` follows the body.                       *)

\* The chain as the grammar of spec section 4.4 reads it from the tokens
\* after `if`: the condition, and what follows the body.
BodyAt(inp) == CHOOSE b \in 1..Len(inp) :
    is_brace(inp[b]) /\ \A i \in 1..(b - 1) : ~is_brace(inp[i])
ChainCond(inp) == SubSeq(inp, 1, BodyAt(inp) - 1)
ChainRest(inp) == SubSeq(inp, BodyAt(inp) + 1, Len(inp))
StartsElse(rest) ==
    Len(rest) >= 2 /\ is_dollar(rest[1]) /\ rest[2] # <<>>
        /\ is_ident(rest[2]) /\ rest[2].v = "else"
StartsElseIf(rest) ==
    StartsElse(rest) /\ Len(rest) >= 3 /\ is_ident(rest[3]) /\ rest[3].v = "if"

\* The number of `$ else if` links of the chain.
RECURSIVE ChainLinks(_)
ChainLinks(inp) ==
    IF StartsElseIf(ChainRest(inp))
    THEN 1 + ChainLinks(SubSeq(ChainRest(inp), 4, Len(ChainRest(inp))))
    ELSE 0

\* How deep the else payloads that are one emit_if operation nest.
RECURSIVE ElseDepth(_)
ElseDepth(o) ==
    IF o.else_body # <<>> /\ Len(o.else_body[1]) = 1 /\ o.else_body[1][1].op = "emit_if"
    THEN 1 + ElseDepth(o.else_body[1][1])
    ELSE 0

\* o is the operation of the chain that inp starts.
RECURSIVE IsChainOp(_, _)
IsChainOp(o, inp) ==
    /\ o.op = "emit_if"
    /\ o.cond = parse_expr(ChainCond(inp))
    /\ IF StartsElseIf(ChainRest(inp))
       THEN /\ o.else_body # <<>>
            /\ Len(o.else_body[1]) = 1
            /\ IsChainOp(o.else_body[1][1], SubSeq(ChainRest(inp), 4, Len(ChainRest(inp))))
       ELSE o.else_body = <<>> <=> ~StartsElse(ChainRest(inp))

C4Step ==
    (status = "running" /\ stack # <<>> /\ Top.fn = "if_expr" /\ stack' = Pop) =>
        LET live == IF Top.pc = "else_if" THEN Top.render ELSE Self.render IN
        /\ Len(live) = Top.base
        /\ Len(parsers') = Len(parsers)
        /\ Len(SelfNext.render) = Len(live) + 1
        /\ IsPrefix(live, SelfNext.render)
        /\ IsChainOp(Last(SelfNext.render), Top.input0)
        /\ (stack[Len(stack) - 1].fn # "if_expr") =>
                ElseDepth(Last(SelfNext.render)) >= ChainLinks(Top.input0)

C4 == [][C4Step]_vars

\* A chain of two `$ else if` links and a final `$ else` has been emitted
\* after another operation.
C4Witness ==
    /\ status = "running" /\ Top.fn = "markup" /\ Top.pc = "if"
    /\ Len(Self.render) >= 1
    /\ Last(Self.render).op = "emit_if"
    /\ ElseDepth(Last(Self.render)) = 2
    /\ Last(Self.render).else_body[1][1].else_body[1][1].else_body # <<>>
    /\ Last(Self.render).if_body # <<>>

-----------------------------------------------------------------------------
(* C5: in attrs, `name ?` not followed by `=` appends attribute_empty(name) *)
(* to the live accumulator; `name ? = expr` appends nothing until the       *)
(* expression is parsed and then exactly one emit_if whose then branch is   *)
(* the single operation attribute_empty(name) and whose else branch is      *)
(* absent.                                                                  *)

IsEmptyAttr(inp) == Len(inp) >= 2 /\ is_ident(inp[1]) /\ is_question(inp[2])
IsToggle(inp) == IsEmptyAttr(inp) /\ Len(inp) >= 3 /\ is_eq(inp[3])

C5Step ==
    /\ (Running("attrs", "loop") /\ IsEmptyAttr(Self.input) /\ ~IsToggle(Self.input))
        => /\ SelfNext.render =
                Append(Self.render, [op |-> "attribute_empty", name |-> Self.input[1].v])
           /\ SelfNext.input = SubSeq(Self.input, 3, Len(Self.input))
           /\ stack' = stack
    /\ (Running("attrs", "loop") /\ IsToggle(Self.input))
        => /\ SelfNext.render = Self.render
           /\ SelfNext.input = SubSeq(Self.input, 4, Len(Self.input))
           /\ Len(stack') = Len(stack) + 1
           /\ stack'[Len(stack)].pc = "splice"
           /\ stack'[Len(stack)].name = Self.input[1].v
           /\ Last(stack').fn = "splice"
    /\ (status = "running" /\ Len(stack) >= 2 /\ Top.fn = "splice"
            /\ stack[Len(stack) - 1].fn = "attrs")
        => \A i \in 1..Len(parsers') : parsers'[i].render = parsers[i].render
    /\ Running("attrs", "splice")
        => /\ SelfNext.render =
                Append(Self.render,
                       [op |-> "emit_if", cond |-> strip_outer_parens(ret[1]),
                        if_body |-> <<[op |-> "attribute_empty", name |-> Top.name]>>,
                        else_body |-> <<>>])
           /\ SelfNext.input = Self.input
           /\ stack' = Jump("loop")

C5 == [][C5Step]_vars

\* `b ? = (c)` has been emitted after an unconditional `b ?`; the condition
\* lost its parentheses.
C5Witness ==
    /\ Running("attrs", "loop")
    /\ Len(Self.render) >= 3
    /\ Last(Self.render).op = "emit_if"
    /\ Last(Self.render).if_body = <<[op |-> "attribute_empty", name |-> "b"]>>
    /\ Last(Self.render).cond.node = "Expr"
    /\ Len(Last(Self.render).cond.tts) = 1 /\ is_ident(Last(Self.render).cond.tts[1])
    /\ Self.render[Len(Self.render) - 1] = [op |-> "attribute_empty", name |-> "b"]

-----------------------------------------------------------------------------
(* C6: a splice entered with a token left hands the sub-parser exactly the  *)
(* first token and the longest run of continuations after it, each `.` and  *)
(* an identifier or a group that is not a brace group, and leaves the       *)
(* cursor at the first token after them.                                    *)

\* How many tokens the continuations at the front of inp take.
RECURSIVE ContinuationsLen(_)
ContinuationsLen(inp) ==
    IF Len(inp) >= 2 /\ is_dot(inp[1]) /\ is_ident(inp[2])
    THEN 2 + ContinuationsLen(SubSeq(inp, 3, Len(inp)))
    ELSE IF Len(inp) >= 1 /\ is_delimited(inp[1]) /\ ~is_brace(inp[1])
    THEN 1 + ContinuationsLen(SubSeq(inp, 2, Len(inp)))
    ELSE 0

SliceLen(inp) == 1 + ContinuationsLen(Tail(inp))

C6Step ==
    /\ (status = "running" /\ stack # <<>> /\ Top.fn = "splice" /\ Top.input0 # <<>>
            /\ (stack' = Pop \/ handed' # handed))
        => LET n == SliceLen(Top.input0) IN
           /\ handed' = Append(handed,
                [by |-> "splice", tts |-> SubSeq(Top.input0, 1, n)])
           /\ Self.input = SubSeq(Top.input0, n + 1, Len(Top.input0))
           /\ parsers' = parsers
           /\ \A i \in 2..n : ~is_brace(Top.input0[i])
           /\ (stack' = Pop => ret' = <<parse_expr(SubSeq(Top.input0, 1, n))>>)
    /\ (status = "running" /\ stack # <<>> /\ Top.fn = "splice" /\ Top.input0 # <<>>)
        => (status' = "fatal" => handed' # handed)

C6 == [][C6Step]_vars

\* `a . b ()` has been handed over and the cursor is at the brace group
\* that follows.
C6Witness ==
    /\ status = "running" /\ Top.fn = "markup" /\ Top.pc = "splice_escape"
    /\ handed # <<>> /\ Last(handed).by = "splice" /\ Len(Last(handed).tts) = 4
    /\ ret = <<parse_expr(Last(handed).tts)>>
    /\ Self.input # <<>> /\ is_brace(Self.input[1])

-----------------------------------------------------------------------------
(* C7, as the spec states it: every slice handed to the sub-parser, by      *)
(* literal, by if_expr and by splice, is non-empty.                         *)

C7Claim == \A i \in 1..Len(handed) : handed[i].tts # <<>>


-----------------------------------------------------------------------------
(* C8: the step that reports a recoverable diagnostic appends no operation  *)
(* and returns from the method that reported it; the markup unit it was     *)
(* reported in then returns without appending an operation, and a markups   *)
(* loop whose unit failed returns without appending one either.             *)

Recoverable ==
    { "invalid syntax", "unexpected end of block", "cannot splice binary data",
      "unexpected element, you silly bumpkin" }

Reports ==
    /\ Len(diags') > Len(diags)
    /\ Last(diags').level = "error"

C8Step ==
    /\ Reports =>
        /\ Len(diags') = Len(diags) + 1
        /\ Last(diags').msg \in Recoverable
        /\ parsers' = parsers
        /\ stack' = Pop
        /\ Top.fn \in {"markup", "literal", "element"}
        /\ Top.fn # "markup" =>
            /\ Last(stack').fn = "markup"
            /\ Last(stack').pc \in {"literal", "minus_literal", "element"}
    /\ (status = "running" /\ stack # <<>> /\ Top.fn = "markup"
            /\ Top.pc \in {"literal", "minus_literal", "element"})
        => parsers' = parsers /\ stack' = Pop
    /\ (status = "running" /\ stack # <<>> /\ Top.fn = "literal"
            /\ parse_lit(Top.tt).node \in {"LitBinary", "LitByte"})
        => Reports /\ Last(diags').msg = "cannot splice binary data"
    /\ (Running("markups", "markup") /\ ret = bool(FALSE))
        => parsers' = parsers /\ stack' = Pop

C8 == [][C8Step]_vars

\* A negated byte literal was refused in a block, after an operation was
\* emitted there; its unit is about to return.
C8Witness ==
    /\ Running("markup", "minus_literal")
    /\ diags # <<>> /\ Last(diags).msg = "cannot splice binary data"
    /\ Len(parsers) >= 2 /\ Self.render # <<>>

-----------------------------------------------------------------------------
(* C9: markups skips a `;` at unit position; it returns only with its input *)
(* exhausted or right after its own markup call returned false, and then    *)
(* without consuming or emitting anything, the refused token still first in *)
(* its input; and markup returns false only in the step in which it reports *)
(* "invalid syntax" or "unexpected end of block".                           *)

C9Step ==
    /\ (Running("markups", "loop") /\ Self.input # <<>> /\ is_semi(Self.input[1]))
        => /\ parsers' = SetSelf([Self EXCEPT !.input = Tail(Self.input)])
           /\ stack' = stack
           /\ diags' = diags
    /\ (status = "running" /\ stack # <<>> /\ Top.fn = "markups" /\ stack' = Pop)
        => /\ parsers' = parsers
           /\ diags' = diags
           /\ \/ Top.pc = "loop" /\ Self.input = <<>>
              \/ /\ Top.pc = "markup" /\ ret = bool(FALSE)
                 /\ Self.input # <<>>
                 /\ Last(diags) = [level |-> "error", span |-> Self.input[1].sp,
                                   msg |-> "invalid syntax"]
    /\ (Running("markups", "markup") /\ ret = bool(FALSE)) => stack' = Pop
    /\ (status = "running" /\ stack # <<>> /\ Top.fn = "markup" /\ stack' = Pop)
        => /\ ret' \in {bool(TRUE), bool(FALSE)}
           /\ ret' = bool(FALSE) <=>
                /\ Top.pc = "match"
                /\ parsers' = parsers
                /\ Len(diags') = Len(diags) + 1
                /\ Last(diags').level = "error"
                /\ \/ /\ Self.input # <<>>
                      /\ Last(diags').msg = "invalid syntax"
                      /\ Last(diags').span = Self.input[1].sp
                   \/ /\ Self.input = <<>>
                      /\ Last(diags').msg = "unexpected end of block"
                      /\ Last(diags').span = Self.span

C9 == [][C9Step]_vars

\* The loop of a block is about to stop at a refused token that other tokens
\* follow, after it skipped a `;` and emitted an operation.
C9Witness ==
    /\ Running("markups", "markup") /\ ret = bool(FALSE)
    /\ Len(parsers) >= 2
    /\ Len(Self.input) >= 2 /\ Self.input[1].sp[Len(Self.input[1].sp)] >= 3
    /\ Self.render # <<>>
    /\ \E i \in 1..Len(tokens) : \E j \in 1..Len(tokens[i].tts) :
            is_semi(tokens[i].tts[j]) /\ Append(tokens[i].sp, j + 1) = Self.input[1].sp

-----------------------------------------------------------------------------
(* C10: markup takes the first rule that matches the next one or two        *)
(* tokens, in this order: `-` then a literal (negated literal, two tokens   *)
(* consumed), a literal, `$ if` (conditional, never a splice), `$ $`        *)
(* (splice emitted PassThru), any other `$` (splice emitted Escape), an     *)
(* identifier (element), a brace group (block); every other first token is  *)
(* refused with "invalid syntax", no token consumed, no operation emitted.  *)

\* The rule the claim's list gives for an input, and what it consumes.
Dispatch(inp) ==
    LET n == Len(inp)
        lit(i) == n >= i /\ inp[i].k = "Literal"
        at(i, t) == n >= i /\ inp[i].k = t
    IN
    CASE n = 0 -> [rule |-> "end", fn |-> "none", eat |-> 0]
      [] n > 0 /\ at(1, "Minus") /\ lit(2) ->
            [rule |-> "minus_literal", fn |-> "literal", eat |-> 2]
      [] n > 0 /\ ~at(1, "Minus") /\ lit(1) ->
            [rule |-> "literal", fn |-> "literal", eat |-> 1]
      [] at(1, "Dollar") /\ at(2, "Ident") /\ inp[2].v = "if" ->
            [rule |-> "if", fn |-> "if_expr", eat |-> 2]
      [] at(1, "Dollar") /\ at(2, "Dollar") ->
            [rule |-> "splice_passthru", fn |-> "splice", eat |-> 2]
      [] at(1, "Dollar") /\ ~at(2, "Dollar")
            /\ ~(at(2, "Ident") /\ inp[2].v = "if") ->
            [rule |-> "splice_escape", fn |-> "splice", eat |-> 1]
      [] at(1, "Ident") -> [rule |-> "element", fn |-> "element", eat |-> 1]
      [] at(1, "Delimited") /\ inp[1].v = "Brace" ->
            [rule |-> "block", fn |-> "block", eat |-> 1]
      [] OTHER -> [rule |-> "invalid", fn |-> "none", eat |-> 0]

C10Step ==
    /\ Running("markup", "match") =>
        LET inp == Self.input
            d == Dispatch(inp)
        IN
        IF d.fn = "none"
        THEN /\ stack' = Pop /\ ret' = bool(FALSE)
             /\ parsers' = parsers
             /\ Len(diags') = Len(diags) + 1
             /\ Last(diags').level = "error"
             /\ d.rule = "invalid" =>
                    /\ Last(diags').msg = "invalid syntax"
                    /\ Last(diags').span = inp[1].sp
        ELSE /\ parsers' = SetSelf([Self EXCEPT
                    !.input = SubSeq(inp, d.eat + 1, Len(inp))])
             /\ diags' = diags
             /\ Len(stack') = Len(stack) + 1
             /\ stack'[Len(stack)] = [fn |-> "markup", pc |-> d.rule]
             /\ Last(stack').fn = d.fn
             /\ Last(stack').pc \in {"start", "loop"}
             /\ d.fn = "literal" =>
                    /\ Last(stack').tt = inp[d.eat]
                    /\ Last(stack').minus = (d.rule = "minus_literal")
             /\ d.fn = "block" => Last(stack').tts = inp[1].tts
             /\ d.fn = "element" => Last(stack').name = inp[1].v
    /\ (status = "running" /\ stack # <<>> /\ Top.fn = "markup"
            /\ Top.pc \in {"splice_passthru", "splice_escape"})
        => /\ stack' = Pop
           /\ parsers' = SetSelf([Self EXCEPT !.render = Append(Self.render,
                    [op |-> "splice", expr |-> ret[1],
                     escape |-> IF Top.pc = "splice_passthru"
                                THEN "PassThru" ELSE "Escape"])])
    /\ (status = "running" /\ stack # <<>> /\ Top.fn = "markup"
            /\ Top.pc \in {"minus_literal", "literal", "if", "element"})
        => stack' = Pop /\ parsers' = parsers

C10 == [][C10Step]_vars

\* A `-` that no literal follows was refused, with it and the token after
\* it still in the input.
C10Witness ==
    /\ Running("markups", "markup") /\ ret = bool(FALSE)
    /\ Len(Self.input) = 2
    /\ Self.input[1].k = "Minus" /\ Self.input[2].k # "Literal"
    /\ Last(diags).msg = "invalid syntax"

-----------------------------------------------------------------------------
(* C11: when a parse ends without a diagnostic, the operations of the       *)
(* output, every push_stmts replaced by its payload, are the operations of  *)
(* the template's tokens read once from left to right; the template         *)
(* `p { "hi " $name "!" }` gives element_open_start(p), element_open_end,   *)
(* string("hi ", Escape), splice(name, Escape), string("!", Escape),        *)
(* element_close(p).                                                        *)

RECURSIVE Flat(_)
Flat(ops) ==
    IF ops = <<>> THEN <<>>
    ELSE LET o == ops[1] IN
         (CASE o.op = "push_stmts" -> Flat(o.stmts)
            [] o.op = "emit_if" ->
                <<[o EXCEPT !.if_body = Flat(@),
                            !.else_body = IF @ = <<>> THEN <<>> ELSE <<Flat(@[1])>>]>>
            [] OTHER -> <<o>>)
         \o Flat(Tail(ops))

Drop(inp, n) == SubSeq(inp, n + 1, Len(inp))
Stop == [ops |-> <<>>, rest |-> <<>>]
StringOp(tt, minus) ==
    [op |-> "string", escape |-> "Escape",
     s |-> IF minus THEN <<"-", parse_lit(tt).s>> ELSE <<parse_lit(tt).s>>]

\* The operations of the tokens in source order: each operator reads one
\* construct at the front of inp and gives its operations and what follows.
RECURSIVE InOrderUnit(_), InOrderUnits(_), InOrderAttrs(_), InOrderIf(_)
InOrderUnit(inp) ==
    LET d == Dispatch(inp)
        after == Drop(inp, d.eat)
    IN
    CASE d.rule = "minus_literal" ->
            [ops |-> <<StringOp(inp[2], TRUE)>>, rest |-> after]
      [] d.rule = "literal" ->
            [ops |-> <<StringOp(inp[1], FALSE)>>, rest |-> after]
      [] d.rule = "if" -> InOrderIf(after)
      [] d.fn = "splice" ->
            IF after = <<>> THEN Stop
            ELSE [ops |-> <<[op |-> "splice",
                             expr |-> parse_expr(SubSeq(after, 1, SliceLen(after))),
                             escape |-> IF d.rule = "splice_passthru"
                                        THEN "PassThru" ELSE "Escape"]>>,
                  rest |-> Drop(after, SliceLen(after))]
      [] d.rule = "element" ->
            LET a == InOrderAttrs(after)
                open == <<[op |-> "element_open_start", name |-> inp[1].v]>>
                            \o a.ops \o <<[op |-> "element_open_end"]>>
            IN
            IF a.rest # <<>> /\ a.rest[1].k = "Slash"
            THEN [ops |-> open, rest |-> Tail(a.rest)]
            ELSE LET body == InOrderUnit(a.rest) IN
                 [ops |-> open \o body.ops
                            \o <<[op |-> "element_close", name |-> inp[1].v]>>,
                  rest |-> body.rest]
      [] d.rule = "block" -> [ops |-> InOrderUnits(inp[1].tts), rest |-> after]
      [] OTHER -> Stop

InOrderUnits(inp) ==
    IF inp = <<>> THEN <<>>
    ELSE IF inp[1].k = "Semi" THEN InOrderUnits(Tail(inp))
    ELSE LET u == InOrderUnit(inp) IN u.ops \o InOrderUnits(u.rest)

InOrderAttrs(inp) ==
    LET n == Len(inp)
        named == n >= 2 /\ inp[1].k = "Ident"
    IN
    IF named /\ inp[2].k = "Eq"
    THEN LET v == InOrderUnit(Drop(inp, 2))
             more == InOrderAttrs(v.rest)
         IN [ops |-> <<[op |-> "attribute_start", name |-> inp[1].v]>> \o v.ops
                        \o <<[op |-> "attribute_end"]>> \o more.ops,
             rest |-> more.rest]
    ELSE IF named /\ inp[2].k = "Question" /\ n >= 3 /\ inp[3].k = "Eq"
    THEN LET after == Drop(inp, 3) IN
         IF after = <<>> THEN Stop
         ELSE LET tts == SubSeq(after, 1, SliceLen(after))
                  more == InOrderAttrs(Drop(after, SliceLen(after)))
              IN [ops |-> <<[op |-> "emit_if",
                             cond |-> IF Len(tts) = 1 /\ tts[1].k = "Delimited"
                                         /\ tts[1].v = "Paren" /\ tts[1].tts # <<>>
                                      THEN parse_expr(tts[1].tts)
                                      ELSE parse_expr(tts),
                             if_body |-> <<[op |-> "attribute_empty",
                                            name |-> inp[1].v]>>,
                             else_body |-> <<>>]>> \o more.ops,
                  rest |-> more.rest]
    ELSE IF named /\ inp[2].k = "Question"
    THEN LET more == InOrderAttrs(Drop(inp, 2)) IN
         [ops |-> <<[op |-> "attribute_empty", name |-> inp[1].v]>> \o more.ops,
          rest |-> more.rest]
    ELSE [ops |-> <<>>, rest |-> inp]

\* inp starts after `$ if`.
InOrderIf(inp) ==
    LET braces == { i \in 1..Len(inp) : inp[i].k = "Delimited" /\ inp[i].v = "Brace" } IN
    IF braces = {} THEN Stop
    ELSE LET k == CHOOSE i \in braces : \A j \in braces : i <= j
             after == Drop(inp, k)
             else_ == Len(after) >= 3 /\ after[1].k = "Dollar"
                        /\ after[2].k = "Ident" /\ after[2].v = "else"
             op(else_body) ==
                [op |-> "emit_if", cond |-> parse_expr(SubSeq(inp, 1, k - 1)),
                 if_body |-> InOrderUnits(inp[k].tts), else_body |-> else_body]
         IN
         IF else_ /\ after[3].k = "Ident" /\ after[3].v = "if"
         THEN LET nested == InOrderIf(Drop(after, 3)) IN
              [ops |-> <<op(<<nested.ops>>)>>, rest |-> nested.rest]
         ELSE IF else_ /\ after[3].k = "Delimited" /\ after[3].v = "Brace"
         THEN [ops |-> <<op(<<InOrderUnits(after[3].tts)>>)>>, rest |-> Drop(after, 3)]
         ELSE [ops |-> <<op(<<>>)>>, rest |-> after]

ExampleTokens == Annot(Example, RootSpan)
ExampleOps ==
    << [op |-> "element_open_start", name |-> "p"],
       [op |-> "element_open_end"],
       [op |-> "string", s |-> <<"hi ">>, escape |-> "Escape"],
       [op |-> "splice", escape |-> "Escape",
        expr |-> [node |-> "Expr", tts |-> <<ExampleTokens[2].tts[3]>>]],
       [op |-> "string", s |-> <<"!">>, escape |-> "Escape"],
       [op |-> "element_close", name |-> "p"] >>

C11 ==
    (status = "done" /\ diags = <<>>) =>
        /\ Flat(output[1]) = InOrderUnits(tokens)
        /\ tokens = ExampleTokens => Flat(output[1]) = ExampleOps

\* The example template has been parsed; its block came out as one
\* push_stmts between the tag operations.
C11Witness ==
    /\ status = "done" /\ diags = <<>>
    /\ tokens = ExampleTokens
    /\ Len(output[1]) = 4 /\ output[1][3].op = "push_stmts"

-----------------------------------------------------------------------------
(* C12, as the spec states it: a literal unit of a supported kind (string,  *)
(* char, integer, float, boolean) appends exactly one string operation,     *)
(* escaped, whose text is the literal's text after one `-` iff the unit     *)
(* began with a minus; a binary or byte literal reports "cannot splice      *)
(* binary data" and appends nothing; either way the unit's tokens are       *)
(* consumed and markup returns true.                                        *)

\* The text section 4.3 of the spec gives each kind of literal token.
CanonicalText(tt) ==
    CASE tt.v \in {"Str", "Bang"} -> parse_lit(tt).s
      [] tt.v = "Char" -> "c"
      [] tt.v = "Int" -> "42"
      [] tt.v \in {"Float", "FloatUnsuffixed"} -> "1.5"
      [] OTHER -> tt.v

\* The lexer gives `true` and `false` as identifier tokens.
IsBooleanLiteral(tt) == tt.k = "Ident" /\ tt.v \in {"true", "false"}
IsLiteralToken(tt) == tt.k = "Literal" \/ IsBooleanLiteral(tt)

\* What the claim says of a step, for the tokens that satisfy lit.
LiteralUnitStep(lit(_)) ==
    /\ Running("markup", "match") =>
        LET inp == Self.input
            minus == Len(inp) >= 2 /\ inp[1].k = "Minus" /\ lit(inp[2])
            plain == Len(inp) >= 1 /\ lit(inp[1])
        IN
        (minus \/ plain) =>
            /\ parsers' = SetSelf([Self EXCEPT
                    !.input = Drop(inp, IF minus THEN 2 ELSE 1)])
            /\ diags' = diags
            /\ Len(stack') = Len(stack) + 1
            /\ Last(stack').fn = "literal"
            /\ Last(stack').minus = minus
            /\ Last(stack').tt = inp[IF minus THEN 2 ELSE 1]
            /\ stack'[Len(stack)].pc \in {"literal", "minus_literal"}
    /\ (Running("literal", "start") /\ lit(Top.tt)) =>
        /\ stack' = Pop
        /\ IF Top.tt.k = "Literal" /\ Top.tt.v \in {"Binary", "Byte"}
           THEN /\ parsers' = parsers
                /\ diags' = Append(diags, [level |-> "error", span |-> Top.tt.sp,
                                           msg |-> "cannot splice binary data"])
           ELSE /\ diags' = diags
                /\ parsers' = SetSelf([Self EXCEPT !.render = Append(Self.render,
                        [op |-> "string", escape |-> "Escape",
                         s |-> IF Top.minus THEN <<"-", CanonicalText(Top.tt)>>
                               ELSE <<CanonicalText(Top.tt)>>])])
    /\ (status = "running" /\ stack # <<>> /\ Top.fn = "markup"
            /\ Top.pc \in {"literal", "minus_literal"}) =>
        /\ stack' = Pop /\ ret' = bool(TRUE)
        /\ parsers' = parsers /\ diags' = diags

C12Claim == [][LiteralUnitStep(IsLiteralToken)]_vars

-----------------------------------------------------------------------------
(* C13: an `if` whose input ends before a brace group, a `$ else` followed  *)
(* by neither `if` nor a brace group, and a splice entered with no token    *)
(* left each end the parse fatally; the fatal step appends no operation to  *)
(* any renderer, the failing construct has emitted no emit_if, no step      *)
(* follows a fatal one, and no output is produced.                          *)

Renders(ps) == [i \in 1..Len(ps) |-> ps[i].render]

DanglingElse(inp) ==
    /\ Len(inp) >= 2 /\ inp[1].k = "Dollar"
    /\ inp[2].k = "Ident" /\ inp[2].v = "else"
    /\ ~(Len(inp) >= 3 /\ inp[3].k = "Ident" /\ inp[3].v = "if")
    /\ ~(Len(inp) >= 3 /\ inp[3].k = "Delimited" /\ inp[3].v = "Brace")

C13State ==
    status = "fatal" =>
        /\ output = <<>>
        /\ diags # <<>> /\ Last(diags).level = "fatal"
        /\ Top.fn = "if_expr" => Len(Self.render) = Top.base

C13Step ==
    /\ status = "running"
    /\ status' = "fatal" =>
        /\ Renders(parsers') = Renders(parsers)
        /\ stack' = stack
        /\ output' = <<>>
    /\ (Running("if_expr", "loop") /\ Self.input = <<>>) =>
        /\ status' = "fatal"
        /\ Last(diags') = [level |-> "fatal", span |-> Top.sp,
                           msg |-> "expected body for this if"]
    /\ (Running("if_expr", "if_body") /\ DanglingElse(Self.input)) =>
        /\ status' = "fatal"
        /\ Last(diags').span = Top.sp
    /\ (Running("splice", "start") /\ Self.input = <<>>) =>
        /\ status' = "running" /\ parsers' = parsers
        /\ Last(stack').fn = "splice" /\ Last(stack').tts = <<>>
    /\ (Running("splice", "loop") /\ Top.tts = <<>>) =>
        /\ status' = "fatal"
        /\ Last(diags') = [level |-> "fatal", span |-> Top.sp,
                           msg |-> "expected expression for this splice"]

C13 == []C13State /\ [][C13Step]_vars

\* A `$ else` that nothing valid follows ended the parse, after the
\* condition was accepted and with operations already emitted.
C13Witness ==
    /\ status = "fatal"
    /\ Top.fn = "if_expr" /\ Top.pc = "if_body"
    /\ Last(diags).msg = "invalid syntax"
    /\ Top.cond_tts # <<>>
    /\ Len(parsers) >= 2 /\ Self.render # <<>>

-----------------------------------------------------------------------------
(* C14: the input of every parser is a suffix of the token slice the parser *)
(* was created over; a step leaves each parser's input where it was or      *)
(* drops at most three tokens from its front, never more than are left, so  *)
(* no token comes back; a new parser starts at the front of its group; and  *)
(* a step whose match selects no consuming arm leaves the input unchanged.  *)

RECURSIVE TokenAt(_, _)
TokenAt(tts, path) ==
    IF Len(path) = 1 THEN tts[path[1]] ELSE TokenAt(tts[path[1]].tts, Tail(path))

\* The slice a parser with this span was created over.
SliceOf(span) == IF span = RootSpan THEN tokens ELSE TokenAt(tokens, span).tts

IsSuffix(s, t) == Len(s) <= Len(t) /\ s = Drop(t, Len(t) - Len(s))

C14State ==
    \A i \in 1..Len(parsers) : IsSuffix(parsers[i].input, SliceOf(parsers[i].span))

Consumed(i) == Len(parsers[i].input) - Len(parsers'[i].input)

C14Step ==
    /\ Len(parsers') \in {Len(parsers) - 1, Len(parsers), Len(parsers) + 1}
    /\ \A i \in 1..Len(parsers) : i <= Len(parsers') =>
        /\ Consumed(i) \in 0..3
        /\ parsers'[i].input = Drop(parsers[i].input, Consumed(i))
        /\ parsers'[i].span = parsers[i].span
        /\ i < Len(parsers) => Consumed(i) = 0
    /\ Len(parsers') = Len(parsers) + 1 =>
        /\ Last(parsers').input = SliceOf(Last(parsers').span)
        /\ Len(Last(parsers').span) > Len(Self.span)
    /\ Len(parsers') = Len(parsers) - 1 => Running("block", "markups")
    /\ (\/ Running("markups", "loop") /\ (Self.input = <<>> \/ Self.input[1].k # "Semi")
        \/ Running("markup", "match") /\ Dispatch(Self.input).eat = 0
        \/ Running("splice", "loop") /\ ContinuationsLen(Self.input) = 0
        \/ Running("element", "attrs") /\ (Self.input = <<>> \/ Self.input[1].k # "Slash")
        \/ Running("attrs", "loop")
            /\ ~(Len(Self.input) >= 2 /\ Self.input[1].k = "Ident"
                    /\ Self.input[2].k \in {"Eq", "Question"})
        \/ Running("if_expr", "if_body")
            /\ ~(Len(Self.input) >= 2 /\ Self.input[1].k = "Dollar"
                    /\ Self.input[2].k = "Ident" /\ Self.input[2].v = "else"))
        => (Len(parsers') = Len(parsers) /\ Consumed(Len(parsers)) = 0)

C14 == []C14State /\ [][C14Step]_vars

\* The parser of a nested group rests inside its slice, two tokens or more
\* consumed and some left, while its parent is past the group.
C14Witness ==
    /\ Len(parsers) >= 2
    /\ Running("markups", "loop")
    /\ Self.input # <<>>
    /\ Len(SliceOf(Self.span)) - Len(Self.input) >= 2
    /\ Len(parsers[1].input) < Len(tokens)
    /\ parsers[1].input # <<>>

-----------------------------------------------------------------------------
(* C15: a parser's in_attr is true exactly while one of its attribute       *)
(* values is being parsed, or when the parser was created inside an         *)
(* attribute value, whose flag it inherits; attrs sets the flag for the     *)
(* value unit and puts the earlier value back when the unit returns, also   *)
(* after the unit reported an error; the outermost parser starts with the   *)
(* flag false.                                                              *)

\* The parser a frame runs in: one more than the blocks entered below it.
ParserOf(k) ==
    1 + Cardinality({ j \in 1..(k - 1) :
                        stack[j].fn = "block" /\ stack[j].pc = "markups" })

InValue(i) ==
    \E k \in 1..Len(stack) :
        stack[k].fn = "attrs" /\ stack[k].pc = "markup" /\ ParserOf(k) = i

C15State ==
    \A i \in 1..Len(parsers) :
        parsers[i].in_attr <=> (InValue(i) \/ (i > 1 /\ parsers[i - 1].in_attr))

C15Step ==
    /\ (Running("attrs", "loop") /\ Len(Self.input) >= 2
            /\ Self.input[1].k = "Ident" /\ Self.input[2].k = "Eq") =>
        /\ ~Self.in_attr /\ SelfNext.in_attr
        /\ Last(stack').fn = "markup"
    /\ Running("attrs", "markup") => (Self.in_attr /\ ~SelfNext.in_attr)
    /\ Len(parsers') = Len(parsers) + 1 =>
        (Last(parsers').in_attr <=> Self.in_attr)
    /\ Len(parsers') = Len(parsers) =>
        (SelfNext.in_attr # Self.in_attr => (stack # <<>> /\ Top.fn = "attrs"))

C15 == []C15State /\ [][C15Step]_vars

\* The value of an attribute was a block in which an element was refused;
\* the block's parser has the flag, and attrs is back with the value unit
\* returned and the flag still to be put back.
C15Witness ==
    /\ Running("attrs", "markup")
    /\ Self.in_attr
    /\ diags # <<>> /\ Last(diags).msg = "unexpected element, you silly bumpkin"
    /\ Len(Last(diags).span) >= 2

-----------------------------------------------------------------------------
(* C16: an element whose attributes are not followed by `/` calls markup    *)
(* for whatever comes next and emits element_close(name) when that call     *)
(* returns, whatever it returned; so `a b "x"` nests b in a and "x" in b,   *)
(* and `input type="checkbox" checked?` at the end of the input reports     *)
(* "unexpected end of block" and still closes input.                        *)

SiblingsOps ==
    << [op |-> "element_open_start", name |-> "a"],
       [op |-> "element_open_end"],
       [op |-> "element_open_start", name |-> "b"],
       [op |-> "element_open_end"],
       [op |-> "string", s |-> <<"hi ">>, escape |-> "Escape"],
       [op |-> "element_close", name |-> "b"],
       [op |-> "element_close", name |-> "a"] >>

CheckboxOps ==
    << [op |-> "element_open_start", name |-> "input"],
       [op |-> "attribute_start", name |-> "type"],
       [op |-> "string", s |-> <<"hi ">>, escape |-> "Escape"],
       [op |-> "attribute_end"],
       [op |-> "attribute_empty", name |-> "checked"],
       [op |-> "element_open_end"],
       [op |-> "element_close", name |-> "input"] >>

C16State ==
    status = "done" =>
        /\ tokens = Annot(Siblings, RootSpan) =>
                (output = <<SiblingsOps>> /\ diags = <<>>)
        /\ tokens = Annot(Checkbox, RootSpan) =>
            /\ output = <<CheckboxOps>>
            /\ diags = <<[level |-> "error", span |-> RootSpan,
                          msg |-> "unexpected end of block"]>>

C16Step ==
    /\ (Running("element", "attrs")
            /\ (Self.input = <<>> \/ Self.input[1].k # "Slash")) =>
        /\ parsers' = SetSelf([Self EXCEPT !.render =
                Append(Self.render, [op |-> "element_open_end"])])
        /\ Len(stack') = Len(stack) + 1
        /\ Last(stack') = [fn |-> "markup", pc |-> "match"]
        /\ stack'[Len(stack)] = [Top EXCEPT !.pc = "markup"]
    /\ Running("element", "markup") =>
        /\ parsers' = SetSelf([Self EXCEPT !.render =
                Append(Self.render, [op |-> "element_close", name |-> Top.name])])
        /\ stack' = Pop
        /\ diags' = diags
    /\ (Running("markup", "match") /\ Self.input = <<>>) =>
        /\ stack' = Pop /\ ret' = bool(FALSE) /\ parsers' = parsers
        /\ diags' = Append(diags, [level |-> "error", span |-> Self.span,
                                   msg |-> "unexpected end of block"])

C16 == []C16State /\ [][C16Step]_vars

\* The checkbox template is parsed: the body was missing, and the element
\* was closed all the same.
C16Witness ==
    /\ status = "done"
    /\ tokens = Annot(Checkbox, RootSpan)
    /\ Last(diags).msg = "unexpected end of block"
    /\ Last(output[1]) = [op |-> "element_close", name |-> "input"]

-----------------------------------------------------------------------------
(* C17: in a parse that does not end fatally every forked renderer is       *)
(* converted once and its operations become the payload of one operation,   *)
(* a branch of an emit_if or a push_stmts: a step changes the number of     *)
(* captures (live forks, converted sequences not yet attached, payloads of  *)
(* recorded operations) only by the forks it creates, a conversion hands on *)
(* exactly what the fork recorded, and at the end no fork and no sequence   *)
(* is left outside the output.                                              *)

RECURSIVE Sum(_, _)
Sum(f, n) == IF n = 0 THEN 0 ELSE f[n] + Sum(f, n - 1)

\* The payloads recorded in ops, at any depth.
RECURSIVE Slots(_)
Slots(ops) ==
    IF ops = <<>> THEN 0
    ELSE LET o == ops[1] IN
         (CASE o.op = "push_stmts" -> 1 + Slots(o.stmts)
            [] o.op = "emit_if" ->
                1 + Slots(o.if_body)
                  + (IF o.else_body = <<>> THEN 0 ELSE 1 + Slots(o.else_body[1]))
            [] OTHER -> 0)
         + Slots(Tail(ops))

Swapped(f) == f.fn = "if_expr" /\ f.pc = "else_if"

\* Forked renderers not yet converted: one per nested parser, one per
\* `else if` being parsed.
LiveForks ==
    (Len(parsers) - 1) + Cardinality({ k \in 1..Len(stack) : Swapped(stack[k]) })

\* ret holds the sequence a block returned and its caller has yet to attach.
Returned ==
    /\ stack # <<>>
    /\ \/ Top.fn = "markup" /\ Top.pc = "block"
       \/ Top.fn = "if_expr" /\ Top.pc \in {"if_body", "else_block"}

\* What one frame holds: the `if` body kept for the emit_if to come, and
\* the renderer swapped out during an `else if`.
Held(f) ==
    IF f.fn = "if_expr" /\ f.pc \in {"else_if", "else_block"}
    THEN 1 + Slots(f.if_body) + (IF Swapped(f) THEN Slots(f.render) ELSE 0)
    ELSE 0

Captures ==
    LiveForks
    + Sum([i \in 1..Len(parsers) |-> Slots(parsers[i].render)], Len(parsers))
    + Sum([k \in 1..Len(stack) |-> Held(stack[k])], Len(stack))
    + (IF Returned THEN 1 + Slots(ret) ELSE 0)

Forks ==
    IF Running("block", "start") \/ Running("attrs", "splice") THEN 1
    ELSE IF /\ Running("if_expr", "if_body")
            /\ Len(Self.input) >= 3 /\ Self.input[1].k = "Dollar"
            /\ Self.input[2].k = "Ident" /\ Self.input[2].v = "else"
            /\ Self.input[3].k = "Ident" /\ Self.input[3].v = "if"
    THEN 1
    ELSE 0

C17State ==
    status = "done" =>
        /\ stack = <<>> /\ Len(parsers) = 1
        /\ output = <<parsers[1].render>>
        /\ Captures = Slots(output[1])

C17Step ==
    status' # "fatal" =>
        /\ Captures' = Captures + Forks
        /\ Running("block", "start") =>
                (Len(parsers') = Len(parsers) + 1 /\ Last(parsers').render = <<>>)
        /\ Running("block", "markups") =>
            /\ ret' = Self.render
            /\ parsers' = SubSeq(parsers, 1, Len(parsers) - 1)
        /\ Running("markup", "block") =>
                SelfNext.render = Append(Self.render, [op |-> "push_stmts", stmts |-> ret])
        /\ (Running("if_expr", "else_if") \/ Running("if_expr", "else_block")) =>
                SelfNext.render =
                    Append(IF Top.pc = "else_if" THEN Top.render ELSE Self.render,
                        [op |-> "emit_if", cond |-> Top.if_cond, if_body |-> Top.if_body,
                         else_body |-> <<IF Top.pc = "else_if" THEN Self.render ELSE ret>>])
        /\ (Running("if_expr", "if_body") /\ Len(stack') = Len(stack) + 1) =>
            /\ stack'[Len(stack)].if_body = ret
            /\ Swapped(stack'[Len(stack)]) =>
                    (SelfNext.render = <<>> /\ stack'[Len(stack)].render = Self.render)

C17 == []C17State /\ [][C17Step]_vars

\* A parse ended with three or more captured sequences in its output, one
\* of them from an `else if`, after it reported an error.
C17Witness ==
    /\ status = "done"
    /\ Slots(output[1]) >= 3
    /\ \E i \in 1..Len(output[1]) :
            /\ output[1][i].op = "emit_if"
            /\ output[1][i].else_body # <<>>
            /\ output[1][i].else_body[1] # <<>>
            /\ output[1][i].else_body[1][1].op = "emit_if"
    /\ diags # <<>>

-----------------------------------------------------------------------------
(* C18: every parse ends, returning or fatally; a markup call that does not *)
(* fail consumes a token, each pass of the loops of markups, attrs, if_expr *)
(* and splice consumes a token or leaves the loop, a block descends into a  *)
(* group smaller than the slice it lies in, and a nested if_expr starts     *)
(* with less input than the one around it.                                  *)

RECURSIVE Size(_)
Size(tts) == IF tts = <<>> THEN 0 ELSE 1 + Size(tts[1].tts) + Size(Tail(tts))

Terminated == status \in {"done", "fatal"}

Eaten == Len(Self.input) - Len(SelfNext.input)
Leaves == stack' = Pop \/ status' = "fatal"

C18Step ==
    /\ Running("markup", "match") =>
        IF Dispatch(Self.input).fn = "none"
        THEN stack' = Pop /\ ret' = bool(FALSE)
        ELSE Len(parsers') = Len(parsers) /\ Eaten >= 1
    /\ Running("markups", "loop") =>
        \/ Leaves
        \/ Len(parsers') = Len(parsers) /\ Eaten = 1 /\ stack' = stack
        \/ Len(stack') = Len(stack) + 1 /\ Last(stack').fn = "markup"
    /\ Running("markups", "markup") =>
        IF ret = bool(FALSE) THEN Leaves ELSE stack' = Jump("loop")
    /\ Running("attrs", "loop") => (Leaves \/ Eaten >= 2)
    /\ Running("if_expr", "loop") =>
        \/ Leaves
        \/ Eaten = 1 /\ stack' = [stack EXCEPT ![Len(stack)].cond_tts =
                                        Append(@, Self.input[1])]
        \/ Eaten = 1 /\ Last(stack').fn = "block"
    /\ Running("splice", "start") => (Self.input # <<>> => Eaten = 1)
    /\ Running("splice", "loop") => (Leaves \/ Eaten >= 1)
    /\ Running("block", "start") =>
        /\ Len(parsers') = Len(parsers) + 1
        /\ Size(Last(parsers').input) < Size(SliceOf(Self.span))
    /\ (Running("if_expr", "if_body") /\ Last(stack').fn = "if_expr"
            /\ Len(stack') = Len(stack) + 1) =>
        /\ Eaten = 3
        /\ Len(Last(stack').input0) < Len(Top.input0)

C18 == <>Terminated /\ [][C18Step]_vars

\* A parse has returned after it went into groups and round its loops.
C18Witness ==
    /\ status = "done"
    /\ Slots(output[1]) >= 2
    /\ Len(tokens) >= 3
    /\ handed # <<>>

-----------------------------------------------------------------------------
(* C19: when a parse has returned, with or without errors reported, the     *)
(* output and every captured sequence in it are well-formed: an             *)
(* element_open_start is followed by its element_open_end before any        *)
(* element_close, an attribute_start by its attribute_end before that       *)
(* element_open_end, attribute operations lie between an                    *)
(* element_open_start and its element_open_end, and each element_close      *)
(* closes the nearest open element of its name, the elements opened after   *)
(* that one being self-closed.  The then branch of a toggle attribute is    *)
(* the exception the code makes: it holds one attribute_empty and nothing   *)
(* around it, and is well-formed only as a part of the tag it lies in.      *)

Nearest(open, name) ==
    LET is == { i \in 1..Len(open) : open[i] = name } IN
    IF is = {} THEN 0 ELSE CHOOSE i \in is : \A j \in is : j <= i

\* Reads ops from mode "body" (outside a tag), "head" (between
\* element_open_start and element_open_end) or "value" (between
\* attribute_start and attribute_end), open being the names of the elements
\* opened and not closed.  With toggles, an emit_if in a head may hold one
\* attribute_empty as its then branch.
RECURSIVE WellFormed(_, _, _, _)
WellFormed(ops, mode, open, toggles) ==
    IF ops = <<>> THEN mode = "body"
    ELSE LET o == ops[1]
             rest == Tail(ops)
             alone(stmts) == WellFormed(stmts, "body", <<>>, toggles)
         IN
         CASE o.op = "element_open_start" ->
                mode = "body" /\ WellFormed(rest, "head", Append(open, o.name), toggles)
           [] o.op = "element_open_end" ->
                mode = "head" /\ WellFormed(rest, "body", open, toggles)
           [] o.op = "attribute_start" ->
                mode = "head" /\ WellFormed(rest, "value", open, toggles)
           [] o.op = "attribute_end" ->
                mode = "value" /\ WellFormed(rest, "head", open, toggles)
           [] o.op = "attribute_empty" ->
                mode = "head" /\ WellFormed(rest, "head", open, toggles)
           [] o.op = "element_close" ->
                /\ mode = "body"
                /\ Nearest(open, o.name) > 0
                /\ WellFormed(rest, "body",
                        SubSeq(open, 1, Nearest(open, o.name) - 1), toggles)
           [] o.op = "push_stmts" ->
                alone(o.stmts) /\ WellFormed(rest, mode, open, toggles)
           [] o.op = "emit_if" ->
                /\ IF toggles /\ mode = "head"
                   THEN /\ Len(o.if_body) = 1 /\ o.if_body[1].op = "attribute_empty"
                        /\ o.else_body = <<>>
                   ELSE /\ alone(o.if_body)
                        /\ o.else_body # <<>> => alone(o.else_body[1])
                /\ WellFormed(rest, mode, open, toggles)
           [] OTHER -> WellFormed(rest, mode, open, toggles)

\* C19 as the spec states it: every sequence by itself, the then branch of
\* a toggle attribute included.
C19Original == status = "done" => WellFormed(output[1], "body", <<>>, FALSE)

C19 == status = "done" => WellFormed(output[1], "body", <<>>, TRUE)

\* A parse that reported an error has returned an element with a toggle
\* attribute, closed.
C19Witness ==
    /\ status = "done" /\ diags # <<>>
    /\ \E i \in 1..Len(output[1]) :
            /\ output[1][i].op = "emit_if"
            /\ output[1][i].if_body # <<>>
            /\ output[1][i].if_body[1].op = "attribute_empty"
    /\ Last(output[1]).op = "element_close"

=============================================================================
